---- MODULE Spec2Model ----
(***************************************************************************)
(* Model of src/main.py: the Medit Link webhook receiver                   *)
(* (handle_medit_webhook), the JSON-backed scan history (load_history /    *)
(* save_history) and the Telegram /latest command (latest_scans_command).  *)
(*                                                                         *)
(* The process is a single asyncio event loop.  A coroutine is interleaved *)
(* with the others only where it awaits; one action of the model is one    *)
(* run of a coroutine from an await that suspends to the next one.         *)
(***************************************************************************)
EXTENDS Integers, Sequences, FiniteSets, TLC

VARIABLES
    file,      \* content of HISTORY_FILE: [kind, data]
    req,       \* req[r]: position and locals of webhook request r
    cmd,       \* the latest /latest invocation: [chat, reply, read]
    admin,     \* ADMIN_CHAT_ID, the CHAT_ID environment variable (a string)
    cap,       \* how many webhook deliveries the sender lets overlap
    obs        \* history variable: the webhook delivery being observed

vars == <<file, req, cmd, admin, cap, obs>>

MAX_HISTORY_SIZE == 5

\* Bounds of the model.
MaxInflight == 2          \* webhook requests in flight at once
Requests == 1..MaxInflight

----------------------------------------------------------------------------
(* Values.  Python None and an absent key are both read through dict.get   *)
(* and are both Null here; "" is the empty string.                         *)

Null == "null"

Truthy(x) == x # Null /\ x # ""

(* A timestamp string is modelled by its date-time part and the sequence   *)
(* of UTC-offset suffixes that follow it, so that string concatenation,    *)
(* str.replace and datetime.fromisoformat are computed rather than assumed.*)
Stamp(b, z) == [base |-> b, tz |-> z]

NoStamp == Stamp(Null, <<>>)                \* key absent / None
ValidStamp == Stamp("2024-01-01T10:00:00", <<"Z">>)
BadStamp == Stamp("not-a-date", <<>>)       \* a string that is no ISO date

TruthyStamp(s) == s.base # Null

\* datetime.now(timezone.utc).isoformat(timespec='milliseconds'): an aware
\* datetime prints its offset.
IsoformatUtcNow == Stamp("now", <<"+00:00">>)

\* s + 'Z'
AppendZ(s) == [s EXCEPT !.tz = @ \o <<"Z">>]

\* s.replace('Z', '+00:00')
ReplaceZ(s) == [s EXCEPT !.tz = [i \in DOMAIN @ |-> IF @[i] = "Z" THEN "+00:00" ELSE @[i]]]

\* datetime.fromisoformat(s) returns (TRUE) or raises ValueError (FALSE):
\* a date-time followed by at most one numeric offset.
FromIsoformatOK(s) ==
    /\ s.base \in {"now", "2024-01-01T10:00:00"}
    /\ Len(s.tz) <= 1
    /\ \A i \in DOMAIN s.tz : s.tz[i] = "+00:00"

\* The default of occurred_at: the receipt time.
ReceiptTime == AppendZ(IsoformatUtcNow)

----------------------------------------------------------------------------
(* Webhook payloads (RawPayload).  An object that the handler reads is a   *)
(* record with a tag: "absent" (no such key), "nondict" (a value that is   *)
(* not a JSON object) or "dict".                                           *)

Absent == [tag |-> "absent"]
NonDict == [tag |-> "nondict"]

PatientObj(n) == [tag |-> "dict", name |-> n]

SellerObj(n) == [tag |-> "dict", name |-> n]

CaseObj(n, p, ds, dc) ==
    [tag |-> "dict", name |-> n, patient |-> p, dateScanned |-> ds, dateCreated |-> dc]

OrderObj(c, dc, s) ==
    [tag |-> "dict", case |-> c, dateCreated |-> dc, seller |-> s]

Event(c, o) == [case |-> c, order |-> o]

\* Case names a payload may carry: none, the empty string, two real names.
CaseNames == {Null, "", "a", "b"}

\* Case "a" comes with a patient object, the others without one.
PatientFor(n) == IF n = "a" THEN PatientObj("Ann") ELSE Absent

\* <<dateScanned, dateCreated>> of a case object.
DatePairs ==
    { <<NoStamp, NoStamp>>, <<ValidStamp, NoStamp>>, <<NoStamp, ValidStamp>>,
      <<BadStamp, ValidStamp>>, <<NoStamp, BadStamp>> }

CaseObjs == {CaseObj(n, PatientFor(n), d[1], d[2]) : n \in CaseNames, d \in DatePairs}

NestedCases ==
    {Absent, NonDict} \cup {CaseObj(n, PatientFor(n), NoStamp, NoStamp) : n \in CaseNames}

OrderObjs ==
    {OrderObj(c, dc, Absent) : c \in NestedCases, dc \in {NoStamp, ValidStamp, BadStamp}}
        \cup {OrderObj(CaseObj("a", PatientFor("a"), NoStamp, NoStamp), ValidStamp, s) :
                s \in {SellerObj("Acme"), NonDict}}

Events ==
    {Event(c, Absent) : c \in {Absent, NonDict} \cup CaseObjs}
        \cup {Event(c, o) : c \in {Absent, NonDict}, o \in {NonDict} \cup OrderObjs}
        \cup {Event(CaseObj(n, Absent, NoStamp, ValidStamp), o) : n \in {Null, "b"},
                o \in {OrderObj(CaseObj("a", PatientFor("a"), NoStamp, NoStamp), ValidStamp, Absent)}}

\* A request body: JSON text of an object, text that is no JSON, or nothing.
Bodies ==
    {[kind |-> "json", event |-> e] : e \in Events}
        \cup {[kind |-> k, event |-> Event(Absent, Absent)] : k \in {"badjson", "empty"}}

----------------------------------------------------------------------------
(* The history file.                                                       *)

Entry(n, p, t) == [caseName |-> n, patientName |-> p, occurredAt |-> t]

\* load_history: the list in the file; [] when the file is missing or when
\* json.load raises JSONDecodeError.
load_history(f) == IF f.kind = "json" THEN f.data ELSE <<>>

\* save_history: rewrites the whole file; an IOError is logged and swallowed
\* (io = "ioerror": the file could not be opened for writing and is unchanged).
save_history(f, history, io) ==
    IF io = "ok" THEN [kind |-> "json", data |-> history] ELSE f

SaveOutcomes == {"ok", "ioerror"}

----------------------------------------------------------------------------
(* handle_medit_webhook, from the event that request.json() delivers to    *)
(* the first chat send.  Nothing in this stretch awaits.                   *)

\* patient_name out of a case object: patient_data.get('name') when
\* patient_data is a dict, else None.
PatientName(c) == IF c.patient.tag = "dict" THEN c.patient.name ELSE Null

\* The 'Час:' line of message_info: fromisoformat(occurred_at.replace(...)).
FormatTimeRaises(t) == ~FromIsoformatOK(ReplaceZ(t))

\* Variant 1: 'case' in event and isinstance(event['case'], dict).
NormalizeCase(c) ==
    LET occurred_at == IF TruthyStamp(c.dateScanned) THEN c.dateScanned
                       ELSE IF TruthyStamp(c.dateCreated) THEN c.dateCreated
                       ELSE ReceiptTime
    IN  [branch |-> "case",
         case_name |-> c.name,
         patient_name |-> PatientName(c),
         occurred_at |-> occurred_at,
         raises |-> FormatTimeRaises(occurred_at)]

\* Variant 2: 'order' in event and isinstance(event['order'], dict).
\* order_data.get('seller', {}).get('name', 'N/A') raises AttributeError when
\* the seller is present and not an object.
NormalizeOrder(o) ==
    LET nested == o.case.tag = "dict"
        occurred_at == IF TruthyStamp(o.dateCreated) THEN o.dateCreated ELSE ReceiptTime
    IN  [branch |-> "order",
         case_name |-> IF nested THEN o.case.name ELSE Null,
         patient_name |-> IF nested THEN PatientName(o.case) ELSE Null,
         occurred_at |-> occurred_at,
         raises |-> o.seller.tag = "nondict" \/ FormatTimeRaises(occurred_at)]

\* The if / elif / else chain over the shapes.
Normalize(e) ==
    IF e.case.tag = "dict" THEN NormalizeCase(e.case)
    ELSE IF e.order.tag = "dict" THEN NormalizeOrder(e.order)
    ELSE [branch |-> "unrec", case_name |-> Null, patient_name |-> Null,
          occurred_at |-> ReceiptTime, raises |-> FALSE]

\* Mutant of Recordable: `if case_name is not None:`.
RecordableNotNone(case_name) == case_name # Null

\* if case_name:
Recordable(case_name) == Truthy(case_name)

\* Mutant of InsertFront: `history[0] = entry` on a non-empty list.
InsertOverHead(history, entry) ==
    IF history = <<>> THEN <<entry>> ELSE <<entry>> \o Tail(history)

\* history.insert(0, entry)
InsertFront(history, entry) == <<entry>> \o history

\* Mutant of Truncate: the bound off by one.
TruncateLate(history) ==
    IF Len(history) > MAX_HISTORY_SIZE + 1
      THEN SubSeq(history, 1, MAX_HISTORY_SIZE + 1) ELSE history

\* if len(history) > MAX_HISTORY_SIZE: history = history[:MAX_HISTORY_SIZE]
Truncate(history) ==
    IF Len(history) > MAX_HISTORY_SIZE THEN SubSeq(history, 1, MAX_HISTORY_SIZE) ELSE history

\* The history block: load, prepend, truncate, save.
RecordHistory(f, n, io) ==
    save_history(f,
                 Truncate(InsertFront(load_history(f),
                                      Entry(n.case_name, n.patient_name, n.occurred_at))),
                 io)

(* The handler from request.json() to its next suspension.  Result: the    *)
(* file, where the request stands next (pc; "idle" when it has returned),  *)
(* the response if it has returned, the local case_name, whether the       *)
(* history block ran (saved), whether its write went through (wrote) and   *)
(* whether that write dropped the oldest entry (evicted).                  *)
Outcome(f, pc, resp, name, saved, wrote, evicted) ==
    [file |-> f, pc |-> pc, resp |-> resp, case_name |-> name,
     saved |-> saved, wrote |-> wrote, evicted |-> evicted]

HandlerBody(b, f, io) ==
    IF b.kind = "badjson"
      THEN \* request.json() raises; in the except block it raises again while
           \* the error text is built, and leaves the handler.
           Outcome(f, "idle", "500_unhandled", Null, FALSE, FALSE, FALSE)
    ELSE IF b.kind = "empty"
      THEN \* request.json() raises; the error text says 'N/A'.
           Outcome(f, "sendErr", Null, Null, FALSE, FALSE, FALSE)
    ELSE LET n == Normalize(b.event) IN
         IF n.branch = "unrec"
           THEN Outcome(f, "sendUnrec", Null, Null, FALSE, FALSE, FALSE)
         ELSE IF n.raises
           THEN Outcome(f, "sendErr", Null, Null, FALSE, FALSE, FALSE)
         ELSE IF Recordable(n.case_name)
           THEN Outcome(RecordHistory(f, n, io), "sendOK", Null, n.case_name, TRUE,
                        io = "ok",
                        io = "ok" /\ Len(load_history(f)) >= MAX_HISTORY_SIZE)
         ELSE \* logger.warning only, then the success return
              Outcome(f, "idle", "200_success", Null, FALSE, FALSE, FALSE)

----------------------------------------------------------------------------
(* latest_scans_command.                                                   *)

DigitChars == <<"0", "1", "2", "3", "4", "5", "6", "7", "8", "9">>

RECURSIVE StrNat(_)
StrNat(n) == IF n < 10 THEN <<DigitChars[n + 1]>>
             ELSE StrNat(n \div 10) \o <<DigitChars[(n % 10) + 1]>>

\* str(i) of an int: its decimal digits, as a sequence of characters.
Str(i) == IF i < 0 THEN <<"-">> \o StrNat(-i) ELSE StrNat(i)

\* Chat identities that may invoke the command, and values of CHAT_ID.
Chats == {7, -7}
AdminIds == {<<"7">>, <<"0", "7">>}

\* Mutant of LatestOutcome: the history is loaded before the chat is checked.
LatestLoadsFirst(chat, adminId, f) ==
    LET history == load_history(f) IN
    IF Str(chat) # adminId THEN [reply |-> "refusal", read |-> TRUE, file |-> f]
    ELSE IF history = <<>> THEN [reply |-> "empty", read |-> TRUE, file |-> f]
    ELSE [reply |-> "listing", read |-> TRUE, file |-> f]

\* The command for chat `chat`: the reply, whether load_history was called,
\* and the file it leaves.
LatestOutcome(chat, adminId, f) ==
    IF Str(chat) # adminId
      THEN [reply |-> "refusal", read |-> FALSE, file |-> f]
    ELSE LET history == load_history(f) IN
         IF history = <<>> THEN [reply |-> "empty", read |-> TRUE, file |-> f]
         ELSE [reply |-> "listing", read |-> TRUE, file |-> f]

----------------------------------------------------------------------------
(* State.                                                                  *)

IdleReq == [pc |-> "idle", case_name |-> Null, wrote |-> FALSE, evicted |-> FALSE]

NoCmd == [chat |-> 0, reply |-> "none", read |-> FALSE]

NoBody == [kind |-> "none", event |-> Event(Absent, Absent)]

\* The observation of one webhook delivery: the body it carried, what the
\* handler did with it, and the response.  Kept only when obs.on.
ObsOff ==
    [on |-> FALSE, stage |-> "none", body |-> NoBody, io |-> "ok", saved |-> FALSE,
     next |-> "none", attempted |-> FALSE, sendFailed |-> FALSE, resp |-> Null]

ObsOn == [ObsOff EXCEPT !.on = TRUE]

Observe(o) == IF obs.on THEN o ELSE obs

EntryA == Entry("a", "Ann", ValidStamp)
EntryB == Entry("b", Null, ValidStamp)

\* The history file at start-up: missing, corrupt, or a list the program
\* wrote earlier.
InitFiles ==
    {[kind |-> k, data |-> <<>>] : k \in {"missing", "corrupt"}}
        \cup {[kind |-> "json", data |-> h] :
                h \in {<<>>, <<EntryB>>, <<EntryA, EntryB, EntryA, EntryB>>,
                       <<EntryA, EntryB, EntryB, EntryA, EntryB>>}}

InFlight == {r \in Requests : req[r].pc # "idle"}

\* Overlapping webhook deliveries.
Init ==
    /\ file \in InitFiles
    /\ req = [r \in Requests |-> IdleReq]
    /\ cmd = NoCmd
    /\ admin = <<"7">>
    /\ cap = MaxInflight
    /\ obs = ObsOff

\* Webhooks delivered one after another, each one observed.
InitSeq ==
    /\ file \in InitFiles
    /\ req = [r \in Requests |-> IdleReq]
    /\ cmd = NoCmd
    /\ admin = <<"7">>
    /\ cap = 1
    /\ obs = ObsOn

\* The command, beside webhooks delivered one after another.
InitCmd ==
    /\ file \in InitFiles
    /\ req = [r \in Requests |-> IdleReq]
    /\ cmd = NoCmd
    /\ admin \in AdminIds
    /\ cap = 1
    /\ obs = ObsOff

\* The server dispatches a webhook request: the coroutine starts and waits
\* for the body at `await request.json()`.
Arrive(r) ==
    /\ req[r].pc = "idle"
    /\ Cardinality(InFlight) < cap
    /\ req' = [req EXCEPT ![r] = [IdleReq EXCEPT !.pc = "recv"]]
    /\ obs' = Observe([ObsOn EXCEPT !.stage = "waiting"])
    /\ UNCHANGED <<file, cmd, admin, cap>>

\* The body arrives; the handler runs to its first chat send or to its end.
Process(r) ==
    /\ req[r].pc = "recv"
    /\ \E b \in Bodies, io \in SaveOutcomes :
         LET out == HandlerBody(b, file, io) IN
         /\ file' = out.file
         /\ req' = [req EXCEPT ![r] = [pc |-> out.pc, case_name |-> out.case_name,
                                       wrote |-> out.wrote, evicted |-> out.evicted]]
         /\ obs' = Observe([ObsOn EXCEPT
                              !.stage = IF out.pc = "idle" THEN "finished" ELSE "processed",
                              !.body = b,
                              !.io = IF out.saved THEN io ELSE "ok",
                              !.saved = out.saved,
                              !.next = out.pc,
                              !.resp = out.resp])
    /\ UNCHANGED <<cmd, admin, cap>>

SendOutcomes == {"sent", "raises"}

\* await telegram_bot.send_message(... text=f"✅ {message_info}" ...) returns or
\* raises; a raise is caught by `except Exception`, which sends the error text.
SendOK(r) ==
    /\ req[r].pc = "sendOK"
    /\ \E s \in SendOutcomes :
         IF s = "sent"
           THEN /\ req' = [req EXCEPT ![r] = IdleReq]
                /\ obs' = Observe([obs EXCEPT !.stage = "finished", !.attempted = TRUE,
                                              !.resp = "200_success"])
           ELSE /\ req' = [req EXCEPT ![r] = [IdleReq EXCEPT !.pc = "sendErr"]]
                /\ obs' = Observe([obs EXCEPT !.attempted = TRUE, !.sendFailed = TRUE])
    /\ UNCHANGED <<file, cmd, admin, cap>>

\* The unrecognized-event send, then `return {...}, 400`: the tuple is the
\* body of an HTTP 200 response.
SendUnrec(r) ==
    /\ req[r].pc = "sendUnrec"
    /\ \E s \in SendOutcomes :
         IF s = "sent"
           THEN /\ req' = [req EXCEPT ![r] = IdleReq]
                /\ obs' = Observe([obs EXCEPT !.stage = "finished", !.attempted = TRUE,
                                              !.resp = "200_unrecognized"])
           ELSE /\ req' = [req EXCEPT ![r] = [IdleReq EXCEPT !.pc = "sendErr"]]
                /\ obs' = Observe([obs EXCEPT !.attempted = TRUE, !.sendFailed = TRUE])
    /\ UNCHANGED <<file, cmd, admin, cap>>

\* The error send of the except block, then raise HTTPException(500); a raise
\* of the send itself leaves the handler.
SendErr(r) ==
    /\ req[r].pc = "sendErr"
    /\ \E s \in SendOutcomes :
         /\ req' = [req EXCEPT ![r] = IdleReq]
         /\ obs' = Observe([obs EXCEPT !.stage = "finished", !.attempted = TRUE,
                                       !.sendFailed = (@ \/ s = "raises"),
                                       !.resp = IF s = "sent" THEN "500" ELSE "500_unhandled"])
    /\ UNCHANGED <<file, cmd, admin, cap>>

\* /latest from chat `chat`.
Latest(chat) ==
    LET out == LatestOutcome(chat, admin, file) IN
    /\ cmd' = [chat |-> chat, reply |-> out.reply, read |-> out.read]
    /\ file' = out.file
    /\ UNCHANGED <<req, admin, cap, obs>>

NextWebhook ==
    \/ \E r \in Requests : Arrive(r)
    \/ \E r \in Requests : Process(r)
    \/ \E r \in Requests : SendOK(r)
    \/ \E r \in Requests : SendUnrec(r)
    \/ \E r \in Requests : SendErr(r)

NextCmd ==
    \/ NextWebhook
    \/ \E chat \in Chats : Latest(chat)

Spec == Init /\ [][NextWebhook]_vars

SpecSeq == InitSeq /\ [][NextWebhook]_vars

SpecCmd == InitCmd /\ [][NextCmd]_vars

----------------------------------------------------------------------------
(* Vocabulary of the properties.                                           *)

\* The persisted history list: the list in the file, empty without one.
HistoryList == IF file.kind = "json" THEN file.data ELSE <<>>

Prefix(h, n) == SubSeq(h, 1, IF Len(h) < n THEN Len(h) ELSE n)

NamesOf(h) == [i \in DOMAIN h |-> h[i].caseName]

\* The shapes as the specification words them (section 4.1).
BareCase(e) == e.case.tag = "dict" /\ Truthy(e.case.name)

OrderWrapped(e) ==
    e.order.tag = "dict" /\ e.order.case.tag = "dict" /\ Truthy(e.order.case.name)

\* The case name the specification's normalize extracts: first matching shape.
SpecCaseName(e) ==
    IF BareCase(e) THEN e.case.name
    ELSE IF OrderWrapped(e) THEN e.order.case.name
    ELSE Null

\* The date fields the matching shape recognizes.
ShapeDates(e) ==
    IF BareCase(e) THEN {e.case.dateScanned, e.case.dateCreated}
    ELSE IF OrderWrapped(e) THEN {e.order.dateCreated}
    ELSE {}

\* The observed delivery carried a JSON object and the handler body has run.
Handled == obs.on /\ obs.stage \in {"processed", "finished"} /\ obs.body.kind = "json"

\* The step in which the observed delivery's handler body runs.
HandlingStep == obs.on /\ obs.stage = "waiting" /\ obs'.stage # "waiting"

\* The case name the handler extracted from a body (None when it has none).
ExtractedName(b) == IF b.kind = "json" THEN Normalize(b.event).case_name ELSE Null

Wrote(r) == req[r].pc = "sendOK" /\ req[r].wrote

----------------------------------------------------------------------------
(* C1: after any webhook has mutated the history, whatever the webhooks    *)
(* and whether the file was missing, empty or well-formed at the start,    *)
(* the persisted history list has at most MAX_HISTORY_SIZE = 5 entries.    *)
C1_HistoryBounded == Len(HistoryList) <= MAX_HISTORY_SIZE

\* A request has just written into a full history, which dropped an entry.
C1_Witness ==
    \E r \in Requests : Wrote(r) /\ req[r].evicted /\ Len(HistoryList) = MAX_HISTORY_SIZE

(* C2: each recordable webhook (one the specification's shapes give a case *)
(* name), processed one after another, puts its entry first and keeps the  *)
(* earlier entries behind it in order, dropping the oldest beyond five: so *)
(* N of them from an empty history leave min(N, 5) entries, newest first.  *)
C2_RecordablePrepended ==
    [][(/\ HandlingStep
        /\ obs'.body.kind = "json"
        /\ Truthy(SpecCaseName(obs'.body.event))
        /\ obs'.io = "ok")
       => (/\ file'.kind = "json"
           /\ NamesOf(file'.data)
                = Prefix(<<SpecCaseName(obs'.body.event)>> \o NamesOf(HistoryList),
                         MAX_HISTORY_SIZE))]_vars

(* C3: a webhook from which no case name is extracted leaves the persisted *)
(* history unchanged, and every entry written to the history has a         *)
(* present, non-empty caseName.                                            *)
C3_NoNameNoWrite ==
    [][/\ (HandlingStep /\ ~Truthy(ExtractedName(obs'.body))) => file' = file
       /\ file' # file => (/\ file'.kind = "json"
                           /\ file'.data # <<>>
                           /\ Truthy(file'.data[1].caseName))]_vars

\* A recognized payload whose case name is empty has been handled to the end.
C3_Witness ==
    /\ Handled
    /\ obs.stage = "finished"
    /\ Normalize(obs.body.event).branch = "case"
    /\ Normalize(obs.body.event).case_name = ""
    /\ ~obs.saved
    /\ HistoryList # <<>>

(* C4: /latest from a chat other than the configured one replies with the  *)
(* refusal and never calls load_history; the command never changes the     *)
(* history file, whoever calls it.                                         *)
C4_UnauthorizedRefused ==
    /\ []((cmd.reply # "none" /\ Str(cmd.chat) # admin)
            => (cmd.reply = "refusal" /\ ~cmd.read))
    /\ [][(\E chat \in Chats : Latest(chat)) => file' = file]_vars

\* An unauthorized chat was refused while the history held entries.
C4_Witness ==
    /\ cmd.reply = "refusal"
    /\ Str(cmd.chat) # admin
    /\ HistoryList # <<>>

(* C5: a failed chat send of the webhook handler never turns the           *)
(* acknowledgment into a failure response and never leaves the handler.    *)
C5_SendFailureAcknowledged ==
    (obs.on /\ obs.stage = "finished" /\ obs.sendFailed)
        => obs.resp \in {"200_success", "200_unrecognized"}

(* C6: a recognized payload with a case name and none of the recognized    *)
(* date fields is processed successfully: it is recorded with occurredAt   *)
(* the receipt time and the success notification is sent.                  *)
C6_NoDateRecorded ==
    (/\ Handled
     /\ Truthy(SpecCaseName(obs.body.event))
     /\ \A d \in ShapeDates(obs.body.event) : d = NoStamp
     /\ obs.io = "ok")
        => (/\ obs.saved
            /\ obs.next = "sendOK"
            /\ HistoryList # <<>>
            /\ HistoryList[1].occurredAt = ReceiptTime)

(* C7: a payload of the order-wrapped shape that is not of the bare-case   *)
(* shape (no top-level case object with a name) has the nested case's name *)
(* extracted and recorded.  Stated for payloads whose order date parses    *)
(* and whose seller, if any, is an object.                                 *)
C7_OrderWrappedRecorded ==
    (/\ Handled
     /\ OrderWrapped(obs.body.event)
     /\ ~BareCase(obs.body.event)
     /\ obs.body.event.order.dateCreated = ValidStamp
     /\ obs.body.event.order.seller.tag # "nondict"
     /\ obs.io = "ok")
        => (/\ obs.saved
            /\ HistoryList # <<>>
            /\ HistoryList[1].caseName = obs.body.event.order.case.name)

(* C8: every webhook that is not recorded in the history has a chat        *)
(* message sent for it.  Stated for bodies that are JSON objects.          *)
C8_UnrecordedNotified ==
    (Handled /\ obs.stage = "finished" /\ ~obs.saved) => obs.attempted

(* C9: a recognized payload with a case name whose date field holds a      *)
(* malformed timestamp string is still recorded, without an error          *)
(* response.                                                               *)
C9_MalformedDateRecorded ==
    (/\ Handled
     /\ Truthy(SpecCaseName(obs.body.event))
     /\ BadStamp \in ShapeDates(obs.body.event)
     /\ obs.io = "ok")
        => (obs.saved /\ obs.next = "sendOK")

====
